---- MODULE Spec2Model ----
(***************************************************************************)
(* Model of src/speech_to_text.py: the global state dict, the Flask        *)
(* handlers start/stop/transcript/clear (served by concurrent request      *)
(* threads, app.run(threaded=True)), the background load_model thread and  *)
(* the record_loop capture threads spawned by start().                     *)
(***************************************************************************)
EXTENDS Integers, Sequences, FiniteSets

(* ---------------------------- program constants ------------------------ *)
SAMPLE_RATE == 16000
SILENCE_THRESHOLD == 300
MAX_SILENCE_CHUNKS == 12
FRAMES_PER_BUFFER == 4000
MIN_SEGMENT_SECONDS == 2
MAX_SEGMENT_SECONDS == 30
DEFAULT_DEVICE == 0
INT16_MIN == -32768
INT16_SCALE == 32768
SPACE == 32

(* ------------------------------- bounds -------------------------------- *)
\* capture threads that can be alive at once (thread slots are reused)
MaxLoops == 2
\* /start requests that can be in flight at once
MaxHandlers == 2
\* transcript lines kept before the engine is only given silence to hear
MaxLines == 2
\* text fragments one transcription call returns
MaxFrags == 2
\* frames at the head of a segment that may be loud in the concurrent runs
MaxLoud == 0
\* frames the device delivers in a run on one of the sound streams
MaxFrames == 250

Loops == 1..MaxLoops
Handlers == 1..MaxHandlers

(* ------------------------------- inputs -------------------------------- *)
\* a device value is None or an integer: None is <<>>, the integer n is <<n>>
NoDevice == <<>>
Device(n) == <<n>>
\* the JSON body of POST /start, by its "device" entries: {} holds none,
\* {"device": null} and {"device": 0} hold one
EmptyBody == <<>>
BodyWith(v) == <<v>>
Requests == {EmptyBody, BodyWith(NoDevice)}
\* a frame is 4000 int16 samples; the model keeps two samples of each
QuietFrame == <<50, -20>>
LoudFrame == <<-3, 400>>
Frames == {QuietFrame, LoudFrame}
\* the sounds a run on one stream hears: the first sample of frame n
Streams == {"silence", "speech", "sentence", "word", "stutter", "threshold",
            "clipped"}
Sound(s, n) ==
    CASE s = "silence" -> -20
      [] s = "speech" -> 400
      \* nine loud frames, then a pause of twelve
      [] s = "sentence" -> IF (n - 1) % 21 < 9 THEN 400 ELSE -20
      \* one loud frame, then a pause of twelve
      [] s = "word" -> IF (n - 1) % 13 < 1 THEN -400 ELSE 20
      \* pauses of eleven frames between loud frames
      [] s = "stutter" -> IF n % 12 = 0 THEN 400 ELSE -20
      \* the same with peaks next to the threshold
      [] s = "threshold" -> IF n % 12 = 0 THEN -SILENCE_THRESHOLD
                            ELSE SILENCE_THRESHOLD - 1
      \* every frame clips at the most negative sample
      [] s = "clipped" -> INT16_MIN
\* frame n of a stream: its sound, and a second quiet sample that tells the
\* frames of a run apart
FrameAt(s, n) == <<Sound(s, n), n % SILENCE_THRESHOLD>>
\* seg.text values of the engine: characters of a fragment
\* (characters are code points: 11 is the vertical tab, 32 the space, 97 and
\* 98 are "a" and "b")
Fragments == {<<>>, <<11>>, <<32, 97, 98>>}
\* the characters str.strip() removes: those for which str.isspace() holds
Whitespace == (9..13) \cup (28..32) \cup {133, 160, 5760} \cup (8192..8202)
              \cup {8232, 8233, 8239, 8287, 12288}

(* ---------------------------- pure functions --------------------------- *)
\* data.get('device', 0)
DeviceOf(body) == IF Len(body) = 0 THEN Device(DEFAULT_DEVICE) ELSE body[1]

\* np.abs on an int16 array wraps at -32768
AbsInt16(x) == IF x = INT16_MIN THEN INT16_MIN ELSE IF x < 0 THEN -x ELSE x

RECURSIVE MaxOf(_)
MaxOf(s) == IF Len(s) = 1 THEN s[1]
            ELSE LET m == MaxOf(Tail(s)) IN IF s[1] > m THEN s[1] ELSE m

\* peak = np.max(np.abs(data))
Peak(data) == MaxOf([i \in 1..Len(data) |-> AbsInt16(data[i])])

\* the comparison turned round: the loud frames counted
NextSilenceOfLoud(silence, data) ==
    IF Peak(data) >= SILENCE_THRESHOLD THEN silence + 1 ELSE 0
\* silence_chunks after the frame: += 1 if peak < SILENCE_THRESHOLD else 0
NextSilence(silence, data) ==
    IF Peak(data) < SILENCE_THRESHOLD THEN silence + 1 ELSE 0

\* the division by SAMPLE_RATE left out: samples compared with seconds
BufferSamplesNotDivided(buf) == Len(buf) * FRAMES_PER_BUFFER * SAMPLE_RATE
\* buffer_duration = len(audio_buffer) * 4000 / SAMPLE_RATE, kept in samples
\* (the quotient is exact in binary floating point: a multiple of 0.25)
BufferSamples(buf) == Len(buf) * FRAMES_PER_BUFFER

\* the test of the maximum duration left out
ShouldCloseOnSilenceOnly(buf, silence) ==
    /\ silence >= MAX_SILENCE_CHUNKS
    /\ BufferSamples(buf) > MIN_SEGMENT_SECONDS * SAMPLE_RATE
    /\ Len(buf) > 0
\* the closure test of line 355 followed by the guard of line 356
ShouldClose(buf, silence) ==
    /\ \/ /\ silence >= MAX_SILENCE_CHUNKS
          /\ BufferSamples(buf) > MIN_SEGMENT_SECONDS * SAMPLE_RATE
       \/ BufferSamples(buf) > MAX_SEGMENT_SECONDS * SAMPLE_RATE
    /\ Len(buf) > 0

\* np.concatenate(audio_buffer).flatten(): every frame is one stream.read
\* of the same number of samples
Flatten(buf) ==
    IF Len(buf) = 0 THEN <<>>
    ELSE LET w == Len(buf[1])
         IN [i \in 1..(Len(buf) * w) |-> buf[((i - 1) \div w) + 1][((i - 1) % w) + 1]]

\* np.concatenate(audio_buffer).flatten().astype(np.float32) / 32768.0: each
\* sample x becomes the fraction x/32768, which float32 holds exactly
AudioData(buf) ==
    LET all == Flatten(buf) IN [i \in 1..Len(all) |-> <<all[i], INT16_SCALE>>]

\* " ".join(fragments)
RECURSIVE Join(_)
Join(frags) == IF Len(frags) = 0 THEN <<>>
               ELSE IF Len(frags) = 1 THEN frags[1]
               ELSE frags[1] \o <<SPACE>> \o Join(Tail(frags))

RECURSIVE LStrip(_)
LStrip(s) == IF Len(s) > 0 /\ s[1] \in Whitespace THEN LStrip(Tail(s)) ELSE s

RECURSIVE RStrip(_)
RStrip(s) == IF Len(s) > 0 /\ s[Len(s)] \in Whitespace
             THEN RStrip(SubSeq(s, 1, Len(s) - 1)) ELSE s

\* the text not stripped
StripNothing(s) == s
\* str.strip()
Strip(s) == RStrip(LStrip(s))

\* text = " ".join([seg.text for seg in segments]).strip()
TextOf(frags) == Strip(Join(frags))

\* extend(text) in place of append(text): one line for each character
AppendLineExtends(lines, text) ==
    lines \o [i \in 1..Len(text) |-> <<text[i]>>]
\* if text: state["transcript"].append(text)
AppendLine(lines, text) == IF text # <<>> THEN Append(lines, text) ELSE lines

(* -------------------------------- state -------------------------------- *)
VARIABLES
    is_recording,      \* state["is_recording"]
    selected_device,   \* state["selected_device"]
    transcript,        \* state["transcript"]
    model,             \* state["model"]
    model_loaded,      \* state["model_loaded"]
    mpc,               \* position of the load_model thread
    hpc,               \* position of each /start request thread
    hdev,              \* device_idx local of each /start request thread
    resp,              \* the latest response a /start request was sent
    lpc,               \* position of each record_loop thread
    audio_buffer,      \* audio_buffer local of each record_loop thread
    silence_chunks,    \* silence_chunks local of each record_loop thread
    closing_order,     \* loops inside a transcription call, in closure order
    last_text,         \* text computed by the latest finished transcription
    stop_pending,      \* loops that had an open stream when stop() last ran
    last_read,         \* the lines the latest GET /transcript returned, if
                       \* it was made in the recording that is going on
    read_rec,          \* such a read was made: no stop() ran since
    cleared,           \* clear() ran since that read
    last_stop,         \* what the latest stop() found: "recording" or "idle"
    signalled,         \* loops with an open stream when stop() cleared the
                       \* flag, while no start() has set it again
    late_reads,        \* frame reads each such loop has completed since
    stream,            \* the sound at the microphone
    frames_read,       \* every frame stream.read has returned, in order
    dispatched,        \* the samples handed to the engine, in order
    watch              \* which of the records above this run keeps

shared == <<is_recording, selected_device, transcript, model, model_loaded>>
loader == <<mpc>>
handlers == <<hpc, hdev, resp>>
loops == <<lpc, audio_buffer, silence_chunks>>
reader == <<last_read, read_rec, cleared>>
history == <<closing_order, last_text, stop_pending>>
stops == <<last_stop, signalled, late_reads>>
capture == <<stream, frames_read, dispatched>>
vars == <<shared, loader, handlers, loops, reader, history, stops, capture,
          watch>>

None == "None"
Whisper == "WhisperModel"

\* a record_loop thread that has not been started or has ended
DeadPcs == {"free"}
Dead(l) == lpc[l] \in DeadPcs
\* a record_loop thread inside the try block: between audio.open and the
\* finally block
Active(l) == lpc[l] \in {"test", "read", "transcribe"}
\* a record_loop thread at its finally block, and the way it got there
FinallyPcs == {"finally_exit", "finally_read", "finally_model",
               "finally_engine"}
InFinally(l) == lpc[l] \in FinallyPcs
Alive(l) == ~Dead(l)
InFlight(h) == hpc[h] # "idle"
\* a /start request that has passed the test and not yet started its thread
Starting(h) == hpc[h] \in {"set_flag", "set_device", "spawn"}

Remove(seq, x) == SelectSeq(seq, LAMBDA y : y # x)

FragSeqs == UNION {[1..n -> Fragments] : n \in 0..MaxFrags}

\* resp, last_text and the reader's variables record outputs of the program
\* and decide nothing in it; a run keeps the one record it is watched for
Watches == {"responses", "texts", "reads", "pending", "stops", "late",
            "frames"}
Kept(kind, new, old) == IF watch = kind THEN new ELSE old

\* the session when the server starts
InitSession(kind) ==
    /\ watch = kind
    /\ is_recording = FALSE
    /\ selected_device = NoDevice
    /\ transcript = <<>>
    /\ hpc = [h \in Handlers |-> "idle"]
    /\ hdev = [h \in Handlers |-> NoDevice]
    /\ resp = None
    /\ lpc = [l \in Loops |-> "free"]
    /\ audio_buffer = [l \in Loops |-> <<>>]
    /\ silence_chunks = [l \in Loops |-> 0]
    /\ closing_order = <<>>
    /\ last_text = <<>>
    /\ stop_pending = {}
    /\ last_read = <<>>
    /\ read_rec = FALSE
    /\ cleared = FALSE
    /\ last_stop = "none"
    /\ signalled = {}
    /\ late_reads = [l \in Loops |-> 0]
    /\ stream = "any"
    /\ frames_read = <<>>
    /\ dispatched = <<>>

\* the server starts: load_model has stored nothing yet
InitWatching(kind) ==
    /\ InitSession(kind)
    /\ model = None
    /\ model_loaded = FALSE
    /\ mpc = "loading"

\* the server once load_model has finished, before any request
InitLoaded(kind) ==
    /\ InitSession(kind)
    /\ model = Whisper
    /\ model_loaded = TRUE
    /\ mpc = "done"

Init == InitWatching("responses")

(* ------------------------------ load_model ----------------------------- *)
\* state["model"] = WhisperModel(...)
LoadModelStore ==
    /\ mpc = "loading"
    /\ model' = Whisper
    /\ mpc' = "stored"
    /\ UNCHANGED <<is_recording, selected_device, transcript, model_loaded,
                   handlers, loops, reader, history, watch,
                   stops, capture>>

\* state["model_loaded"] = True
LoadModelFlag ==
    /\ mpc = "stored"
    /\ model_loaded' = TRUE
    /\ mpc' = "done"
    /\ UNCHANGED <<is_recording, selected_device, transcript, model,
                   handlers, loops, reader, history, watch,
                   stops, capture>>

(* -------------------------------- start -------------------------------- *)
\* the flag test left out
AlreadyRecordingNever(flag) == FALSE
\* if state["is_recording"]
AlreadyRecording(flag) == flag

\* a thread slot is left for one more accepted request
SlotLeft ==
    Cardinality({l \in Loops : Alive(l)})
        + Cardinality({h \in Handlers : Starting(h)}) < MaxLoops

\* lines 389 and 392-393: the test of the flag, and the request body (a JSON
\* object; a body that is not one is refused before any write)
StartCheck(h, req) ==
    /\ hpc[h] = "idle"
    /\ IF AlreadyRecording(is_recording)
       THEN /\ hpc' = [hpc EXCEPT ![h] = "reject"]
            /\ UNCHANGED hdev
       ELSE /\ SlotLeft
            /\ hpc' = [hpc EXCEPT ![h] = "set_flag"]
            /\ hdev' = [hdev EXCEPT ![h] = DeviceOf(req)]
    /\ UNCHANGED <<shared, loader, resp, loops, reader, history, stops,
                   capture, watch>>

\* line 390: the 400 response is sent
StartReject(h) ==
    /\ hpc[h] = "reject"
    /\ resp' = Kept("responses", "Already recording", resp)
    /\ hpc' = [hpc EXCEPT ![h] = "idle"]
    /\ UNCHANGED <<shared, loader, hdev, loops, reader, history, stops,
                   capture, watch>>

\* line 395: state["is_recording"] = True
StartSetFlag(h) ==
    /\ hpc[h] = "set_flag"
    /\ is_recording' = TRUE
    /\ hpc' = [hpc EXCEPT ![h] = "set_device"]
    /\ signalled' = {}
    /\ late_reads' = [l \in Loops |-> 0]
    /\ UNCHANGED <<selected_device, transcript, model, model_loaded, loader,
                   hdev, resp, loops, reader, history, last_stop, capture,
                   watch>>

\* line 396: state["selected_device"] = device_idx
StartSetDevice(h) ==
    /\ hpc[h] = "set_device"
    /\ selected_device' = hdev[h]
    /\ hpc' = [hpc EXCEPT ![h] = "spawn"]
    /\ UNCHANGED <<is_recording, transcript, model, model_loaded, loader,
                   hdev, resp, loops, reader, history, stops, capture, watch>>

\* the slot of the next thread: the lowest one whose thread is gone
NewSlot == CHOOSE l \in Loops : Dead(l) /\ \A k \in Loops : k < l => Alive(k)

\* lines 398-399: Thread(...).start() returns once the new thread runs
StartSpawn(h) ==
    /\ hpc[h] = "spawn"
    /\ \E l \in Loops : Dead(l)
    /\ lpc' = [lpc EXCEPT ![NewSlot] = "open"]
    /\ hpc' = [hpc EXCEPT ![h] = "respond"]
    /\ UNCHANGED <<shared, loader, hdev, resp, audio_buffer, silence_chunks,
                   reader, history, stops, capture, watch>>

\* line 401: the 200 response is sent
StartRespond(h) ==
    /\ hpc[h] = "respond"
    /\ resp' = Kept("responses", "Recording started", resp)
    /\ hpc' = [hpc EXCEPT ![h] = "idle"]
    /\ hdev' = [hdev EXCEPT ![h] = NoDevice]
    /\ UNCHANGED <<shared, loader, loops, reader, history, stops, capture,
                   watch>>

(* ----------------------- stop, transcript, clear ----------------------- *)
\* what stop() found, and the loops its signal is for
StopRecords ==
    /\ stop_pending' = Kept("pending",
                            stop_pending \cup {l \in Loops : Active(l)},
                            stop_pending)
    /\ last_read' = <<>>
    /\ read_rec' = FALSE
    /\ cleared' = FALSE
    /\ last_stop' = Kept("stops", IF is_recording THEN "recording" ELSE "idle",
                         last_stop)
    /\ signalled' = Kept("late", signalled \cup {l \in Loops : Active(l)},
                         signalled)
    /\ UNCHANGED late_reads

\* a stop() that toggles the flag: is_recording = not is_recording
StopToggles ==
    /\ is_recording' = ~is_recording
    /\ StopRecords
    /\ UNCHANGED <<selected_device, transcript, model, model_loaded, loader,
                   handlers, loops, closing_order, last_text, capture, watch>>

\* state["is_recording"] = False
Stop ==
    /\ is_recording' = FALSE
    /\ StopRecords
    /\ UNCHANGED <<selected_device, transcript, model, model_loaded, loader,
                   handlers, loops, closing_order, last_text, capture, watch>>

\* jsonify({"transcript": state["transcript"]})
ReadTranscript ==
    /\ last_read' = Kept("reads", IF is_recording THEN transcript ELSE <<>>,
                          last_read)
    /\ read_rec' = Kept("reads", is_recording, read_rec)
    /\ cleared' = FALSE
    /\ UNCHANGED <<shared, loader, handlers, loops, history, stops, capture,
                   watch>>

\* a clear() that also drops the segments being captured
ClearEverything ==
    /\ transcript' = <<>>
    /\ cleared' = Kept("reads", read_rec, cleared)
    /\ audio_buffer' = [l \in Loops |-> <<>>]
    /\ silence_chunks' = [l \in Loops |-> 0]
    /\ UNCHANGED <<is_recording, selected_device, model, model_loaded, loader,
                   handlers, lpc, last_read, read_rec, history, stops, capture,
                   watch>>

\* state["transcript"] = []
Clear ==
    /\ transcript' = <<>>
    /\ cleared' = Kept("reads", read_rec, cleared)
    /\ UNCHANGED <<is_recording, selected_device, model, model_loaded, loader,
                   handlers, loops, last_read, read_rec, history, stops,
                   capture, watch>>

(* ----------------------------- record_loop ----------------------------- *)
\* the thread ends: its locals go
Ends(l, how) ==
    /\ lpc' = [lpc EXCEPT ![l] = how]
    /\ audio_buffer' = [audio_buffer EXCEPT ![l] = <<>>]
    /\ silence_chunks' = [silence_chunks EXCEPT ![l] = 0]
    /\ stop_pending' = stop_pending \ {l}
    /\ closing_order' = Remove(closing_order, l)
    /\ signalled' = signalled \ {l}
    /\ late_reads' = [late_reads EXCEPT ![l] = 0]

\* the thread leaves the try block (the while test fails, or an exception
\* nothing catches) and is at line 365, its stream still open
Leaves(l, why) ==
    /\ lpc' = [lpc EXCEPT ![l] = why]
    /\ closing_order' = Remove(closing_order, l)
    /\ UNCHANGED <<stop_pending, signalled, late_reads>>

\* lines 329-340: audio.open(...) returns a stream, or raises before the try
OpenStream(l, ok) ==
    /\ lpc[l] = "open"
    /\ IF ok
       THEN /\ lpc' = [lpc EXCEPT ![l] = "test"]
            /\ audio_buffer' = [audio_buffer EXCEPT ![l] = <<>>]
            /\ silence_chunks' = [silence_chunks EXCEPT ![l] = 0]
            /\ UNCHANGED <<stop_pending, closing_order, signalled, late_reads>>
       ELSE Ends(l, "free")
    /\ UNCHANGED <<shared, loader, handlers, reader, last_text, last_stop,
                   capture, watch>>

\* a loop that writes what it still holds to the transcript when it leaves
TestFlagFlushes(l) ==
    /\ lpc[l] = "test"
    /\ IF is_recording
       THEN /\ lpc' = [lpc EXCEPT ![l] = "read"]
            /\ UNCHANGED <<closing_order, transcript, dispatched>>
       ELSE /\ lpc' = [lpc EXCEPT ![l] = "finally_exit"]
            /\ closing_order' = Remove(closing_order, l)
            /\ transcript' = IF audio_buffer[l] # <<>> /\ Len(transcript) < MaxLines
                             THEN Append(transcript, <<97>>) ELSE transcript
            /\ dispatched' = IF audio_buffer[l] # <<>>
                             THEN Kept("frames",
                                       dispatched \o AudioData(audio_buffer[l]),
                                       dispatched)
                             ELSE dispatched
    /\ UNCHANGED <<is_recording, selected_device, model, model_loaded, loader,
                   handlers, audio_buffer, silence_chunks, reader, last_text,
                   stop_pending, stops, stream, frames_read, watch>>

\* while True: the flag is not looked at
TestFlagNever(l) ==
    /\ lpc[l] = "test"
    /\ lpc' = [lpc EXCEPT ![l] = "read"]
    /\ UNCHANGED <<shared, loader, handlers, audio_buffer, silence_chunks,
                   reader, history, stops, capture, watch>>

\* line 343: while state["is_recording"]; when false, on to the finally block
TestFlag(l) ==
    /\ lpc[l] = "test"
    /\ IF is_recording
       THEN /\ lpc' = [lpc EXCEPT ![l] = "read"]
            /\ UNCHANGED <<stop_pending, closing_order, signalled, late_reads>>
       ELSE Leaves(l, "finally_exit")
    /\ UNCHANGED <<shared, loader, handlers, audio_buffer, silence_chunks,
                   reader, last_text, last_stop, capture, watch>>

\* lines 344-358: stream.read returns a frame; the frame is buffered, the
\* silence run counted, the closure test made, and on closure the samples
\* are handed to state["model"].transcribe (AttributeError when it is None)
ReadFrame(l, data) ==
    /\ lpc[l] = "read"
    /\ frames_read' = Kept("frames", Append(frames_read, data), frames_read)
    /\ LET buf == Append(audio_buffer[l], data)
           sil == NextSilence(silence_chunks[l], data)
       IN /\ audio_buffer' = [audio_buffer EXCEPT ![l] = buf]
          /\ silence_chunks' = [silence_chunks EXCEPT ![l] = sil]
          /\ IF ShouldClose(buf, sil)
             THEN IF model = None
                  THEN /\ lpc' = [lpc EXCEPT ![l] = "finally_model"]
                       /\ UNCHANGED <<closing_order, dispatched>>
                  ELSE /\ lpc' = [lpc EXCEPT ![l] = "transcribe"]
                       /\ closing_order' = Append(closing_order, l)
                       /\ dispatched' = Kept("frames",
                                             dispatched \o AudioData(buf),
                                             dispatched)
             ELSE /\ lpc' = [lpc EXCEPT ![l] = "test"]
                  /\ UNCHANGED <<closing_order, dispatched>>
    /\ late_reads' = IF l \in signalled /\ late_reads[l] < 2
                     THEN [late_reads EXCEPT ![l] = @ + 1]
                     ELSE late_reads
    /\ UNCHANGED <<shared, loader, handlers, reader, last_text, stop_pending,
                   last_stop, signalled, stream, watch>>

\* line 344: stream.read raises (the device is gone); on to the finally block
ReadFails(l) ==
    /\ lpc[l] = "read"
    /\ Leaves(l, "finally_read")
    /\ UNCHANGED <<shared, loader, handlers, audio_buffer, silence_chunks,
                   reader, last_text, last_stop, capture, watch>>

\* the buffer and the silence run kept after a closure
TranscribeReturnsKeeps(l, frags) ==
    /\ lpc[l] = "transcribe"
    /\ last_text' = Kept("texts", TextOf(frags), last_text)
    /\ transcript' = AppendLine(transcript, TextOf(frags))
    /\ lpc' = [lpc EXCEPT ![l] = "test"]
    /\ closing_order' = Remove(closing_order, l)
    /\ UNCHANGED <<is_recording, selected_device, model, model_loaded, loader,
                   handlers, reader, stop_pending, stops, capture, watch,
                   audio_buffer, silence_chunks>>

\* lines 358-363: the engine returns its fragments; join, strip, append,
\* reset of the buffer and of the silence run
TranscribeReturns(l, frags) ==
    /\ lpc[l] = "transcribe"
    /\ last_text' = Kept("texts", TextOf(frags), last_text)
    /\ transcript' = AppendLine(transcript, TextOf(frags))
    /\ audio_buffer' = [audio_buffer EXCEPT ![l] = <<>>]
    /\ silence_chunks' = [silence_chunks EXCEPT ![l] = 0]
    /\ lpc' = [lpc EXCEPT ![l] = "test"]
    /\ closing_order' = Remove(closing_order, l)
    /\ UNCHANGED <<is_recording, selected_device, model, model_loaded, loader,
                   handlers, reader, stop_pending, stops, capture, watch>>

\* lines 358-359: the engine raises; nothing catches it, on to the finally
\* block
TranscribeFails(l) ==
    /\ lpc[l] = "transcribe"
    /\ Leaves(l, "finally_engine")
    /\ UNCHANGED <<shared, loader, handlers, audio_buffer, silence_chunks,
                   reader, last_text, last_stop, capture, watch>>

\* lines 365-367: stop_stream, close, terminate; then the thread ends
Finally(l) ==
    /\ InFinally(l)
    /\ Ends(l, "free")
    /\ UNCHANGED <<shared, loader, handlers, reader, last_text, last_stop,
                   capture, watch>>

(* ---------------------------- specification ---------------------------- *)
\* the frames the device delivers in the concurrent runs: speech in the
\* first MaxLoud frames of a segment at most, then silence
\* on a sound stream: its next frame, as long as the device delivers
FramesNow(l) ==
    IF watch = "frames"
    THEN IF Len(frames_read) < MaxFrames
         THEN {FrameAt(stream, Len(frames_read) + 1)} ELSE {}
    ELSE IF Len(audio_buffer[l]) < MaxLoud THEN Frames ELSE {QuietFrame}

\* the engine's answers: once the transcript is full it hears nothing; on a
\* run that does not keep the texts it answers with one fragment at most
AnswersNow ==
    IF Len(transcript) >= MaxLines THEN {f \in FragSeqs : TextOf(f) = <<>>}
    ELSE IF watch # "texts" THEN {f \in FragSeqs : Len(f) <= 1}
    ELSE FragSeqs

LoopStep(l) ==
    \/ \E ok \in BOOLEAN : OpenStream(l, ok)
    \/ TestFlag(l)
    \/ \E data \in FramesNow(l) : ReadFrame(l, data)
    \/ ReadFails(l)
    \/ \E frags \in AnswersNow : TranscribeReturns(l, frags)
    \/ TranscribeFails(l)
    \/ Finally(l)

\* the requests and the capture threads
NextLoaded ==
    \/ \E h \in Handlers, req \in Requests : StartCheck(h, req)
    \/ \E h \in Handlers : StartReject(h)
    \/ \E h \in Handlers : StartSetFlag(h)
    \/ \E h \in Handlers : StartSetDevice(h)
    \/ \E h \in Handlers : StartSpawn(h)
    \/ \E h \in Handlers : StartRespond(h)
    \/ Stop
    \/ ReadTranscript
    \/ Clear
    \/ \E l \in Loops : LoopStep(l)

Next ==
    \/ LoadModelStore
    \/ LoadModelFlag
    \/ NextLoaded

Spec == Init /\ [][Next]_vars
SpecTexts == InitLoaded("texts") /\ [][NextLoaded]_vars
SpecReads == InitLoaded("reads") /\ [][NextLoaded]_vars
SpecPending == InitWatching("pending") /\ [][Next]_vars
SpecStops == InitWatching("stops") /\ [][Next]_vars
SpecLate == InitWatching("late") /\ [][Next]_vars

\* one capture session on each sound stream: the model is loaded, a start()
\* has been accepted and has started its thread
InitCapture ==
    /\ watch = "frames"
    /\ stream \in Streams
    /\ is_recording = TRUE
    /\ selected_device = Device(DEFAULT_DEVICE)
    /\ transcript = <<>>
    /\ model = Whisper
    /\ model_loaded = TRUE
    /\ mpc = "done"
    /\ hpc = [h \in Handlers |-> "idle"]
    /\ hdev = [h \in Handlers |-> NoDevice]
    /\ resp = None
    /\ lpc = [l \in Loops |-> IF l = 1 THEN "open" ELSE "free"]
    /\ audio_buffer = [l \in Loops |-> <<>>]
    /\ silence_chunks = [l \in Loops |-> 0]
    /\ closing_order = <<>>
    /\ last_text = <<>>
    /\ stop_pending = {}
    /\ last_read = <<>>
    /\ read_rec = FALSE
    /\ cleared = FALSE
    /\ last_stop = "none"
    /\ signalled = {}
    /\ late_reads = [l \in Loops |-> 0]
    /\ frames_read = <<>>
    /\ dispatched = <<>>

NextCapture ==
    \/ Stop
    \/ Clear
    \/ \E l \in Loops : LoopStep(l)

SpecCapture == InitCapture /\ [][NextCapture]_vars

\* threads are scheduled, and frame reads and transcription calls return
FairSpec == SpecPending /\ \A l \in Loops : WF_vars(LoopStep(l))

(* ------------------------------- claims -------------------------------- *)
ActiveLoops == {l \in Loops : Active(l)}
AliveLoops == {l \in Loops : Alive(l)}
IsPrefix(s, t) == Len(s) <= Len(t) /\ SubSeq(t, 1, Len(s)) = s
IsBlank(s) == \A i \in 1..Len(s) : s[i] \in Whitespace
\* the lines a capture loop can append: the non-empty texts of the engine
Lines == {TextOf(f) : f \in FragSeqs} \ {<<>>}

\* C1: in every reachable state at most one capture loop has an open audio
\* stream and can still read frames.
C1_AtMostOneActiveLoop == Cardinality(ActiveLoops) <= 1

\* C2: a start() that finds is_recording true is answered "Already
\* recording": the request goes no further (no flag write, no device write,
\* no thread), and its steps, the test and the answer, leave is_recording,
\* selected_device, the transcript and the set of threads as they were.
C2_StartRejectedWhileRecording ==
    [][\A h \in Handlers :
          /\ (hpc[h] = "idle" /\ is_recording /\ hpc'[h] # "idle")
                => hpc'[h] = "reject"
          /\ hpc[h] = "reject" => hpc'[h] \in {"reject", "idle"}
          /\ (hpc[h] = "reject" /\ hpc'[h] = "idle")
                => resp' = "Already recording"
          /\ (hpc[h] # "reject" /\ hpc'[h] = "reject") \/
             (hpc[h] = "reject" /\ hpc'[h] # "reject")
                => UNCHANGED <<is_recording, selected_device, transcript,
                               lpc>>]_vars

\* C2 witness: a second start() was rejected while the one loop of the first
\* start() is capturing.
C2_Witness ==
    /\ resp = "Already recording"
    /\ is_recording
    /\ Cardinality(AliveLoops) = 1
    /\ Cardinality(ActiveLoops) = 1
    /\ \A h \in Handlers : hpc[h] = "idle"

\* C3: a capture loop that had its stream open when stop() ran eventually
\* exits, whatever start/stop requests follow.
C3_StoppedLoopExits == \A l \in Loops : (l \in stop_pending) ~> Dead(l)

\* C4: when audio.open fails in a capture thread the session is Idle
\* afterwards: is_recording is false.
C4_OpenFailureLeavesIdle ==
    [][\A l \in Loops :
           lpc[l] = "open" /\ lpc'[l] = "free" => ~is_recording']_vars

\* C5: when a frame read fails in a capture loop the loop exits and
\* is_recording becomes false without a stop() call.
C5_ReadFailureLeavesIdle ==
    [][\A l \in Loops :
           lpc[l] = "finally_read" /\ lpc'[l] = "free" => ~is_recording']_vars

\* C6: a transcription call that is in progress ends with the loop back at
\* its while test with an empty buffer: a failing call never ends the loop.
C6_EngineFailureKeepsLoop ==
    [][\A l \in Loops :
           lpc[l] = "transcribe" /\ lpc'[l] # "transcribe"
               => /\ lpc'[l] = "test"
                  /\ audio_buffer'[l] = <<>>
                  /\ silence_chunks'[l] = 0]_vars

\* C7: two segment closures are never in progress at once, and a closure
\* that yields a non-empty text appends exactly one line, as the earliest
\* closure still in progress.
C7_LinesInClosureOrder ==
    /\ [](Len(closing_order) <= 1)
    /\ [][\A l \in Loops :
              lpc[l] = "transcribe" /\ lpc'[l] = "test"
                  => /\ Head(closing_order) = l
                     /\ \/ transcript' = transcript
                        \/ /\ Len(transcript') = Len(transcript) + 1
                           /\ IsPrefix(transcript, transcript')]_vars

\* C8 as stated: of two successive transcript reads made while Recording,
\* the later returns at least as many lines as the earlier.
C8_ReadsNeverShrink ==
    [][read_rec /\ read_rec' => Len(last_read') >= Len(last_read)]_vars

\* C8 amended: of two successive transcript reads made while Recording with
\* no clear() between them, the later returns the lines of the earlier
\* followed by zero or more new ones; every line returned is a whole line
\* as a capture loop appended it.
C8_ReadsGrowUnlessCleared ==
    /\ [][read_rec /\ read_rec' /\ ~cleared
              => IsPrefix(last_read, last_read')]_vars
    /\ [](\A i \in 1..Len(last_read) : last_read[i] \in Lines)

\* C8 witness: a read made while Recording, with no clear() since, returned
\* two lines that capture appended one after the other.
C8_Witness ==
    /\ watch = "reads"
    /\ read_rec
    /\ ~cleared
    /\ Len(last_read) = 2

\* C8 witness of the refuted case: clear() ran after a read that returned a
\* line, while Recording.
C8_ClearedWhileRecording ==
    /\ watch = "reads"
    /\ read_rec
    /\ cleared
    /\ Len(last_read) > 0
    /\ transcript = <<>>

\* C9: a closure whose joined and stripped text is empty leaves the
\* transcript as it was, and no line of the transcript is ever empty or
\* only whitespace.
C9_EmptyTextAddsNoLine ==
    /\ [][\A l \in Loops :
              lpc[l] = "transcribe" /\ lpc'[l] = "test" /\ last_text' = <<>>
                  => transcript' = transcript]_vars
    /\ [](\A i \in 1..Len(transcript) : ~IsBlank(transcript[i]))

\* C9 witness: after a line was appended, a later closure produced an empty
\* text and the transcript still holds just that line.
C9_Witness ==
    /\ watch = "texts"
    /\ last_text = <<>>
    /\ Len(transcript) = 1
    /\ \E l \in Loops : lpc[l] = "test" /\ audio_buffer[l] = <<>>

\* C10: clear() empties the transcript and leaves is_recording,
\* selected_device and every capture loop's position, frame buffer and
\* silence counter as they were, in any session state.
C10_ClearLeavesCaptureAlone ==
    [][(transcript' # transcript /\ Len(transcript') <= Len(transcript))
           => /\ transcript' = <<>>
              /\ UNCHANGED <<is_recording, selected_device, lpc,
                             audio_buffer, silence_chunks>>]_vars

\* C10 witness: a line was appended and clear() ran while a capture loop
\* held a partly filled segment; the segment is still there.
C10_Witness ==
    /\ watch = "texts"
    /\ last_text # <<>>
    /\ transcript = <<>>
    /\ is_recording
    /\ \E l \in Loops : lpc[l] = "read" /\ Len(audio_buffer[l]) > 1
                        /\ silence_chunks[l] > 1

\* C11: stop() is idempotent. Every stop() leaves is_recording false and
\* leaves selected_device, the transcript, the /start requests in flight
\* and every capture loop's position, buffer and silence run as they were;
\* a stop() that found the session idle changes nothing at all of these, so
\* a second stop() leaves the state the first one left.
C11_StopIdempotent ==
    [][last_stop' # last_stop =>
          /\ ~is_recording'
          /\ UNCHANGED <<selected_device, transcript, model, model_loaded,
                         hpc, hdev, lpc, audio_buffer, silence_chunks>>
          /\ last_stop' = "idle" => UNCHANGED is_recording]_vars
\* a stop() found the session idle while a loop the earlier stop() had
\* signalled was still there
C11_Witness == last_stop = "idle" /\ ~is_recording /\ ActiveLoops # {}

\* C12: once stop() has cleared the flag and no start() has set it again, a
\* loop that had its stream open completes at most one more frame read (the
\* one it was in) and never goes from the test of the flag to another read.
C12_AtMostOneLateRead ==
    [][\A l \in Loops :
          /\ late_reads'[l] <= 1
          /\ l \in signalled /\ l \in signalled' /\ lpc[l] = "test"
                => lpc'[l] # "read"]_vars
\* a signalled loop has completed the read it was in and not yet ended
C12_Witness == \E l \in signalled : late_reads[l] = 1 /\ Active(l)

\* what the specification says of frames and segments, in its own terms
AbsOf(x) == IF x < 0 THEN -x ELSE x
\* the peak absolute sample of a frame
PeakMagnitude(data) == MaxOf([i \in 1..Len(data) |-> AbsOf(data[i])])
Silent(data) == PeakMagnitude(data) < SILENCE_THRESHOLD
\* the consecutive silent frames at the end of a buffer
RECURSIVE SilentRun(_)
SilentRun(buf) ==
    IF Len(buf) > 0 /\ Silent(buf[Len(buf)])
    THEN 1 + SilentRun(SubSeq(buf, 1, Len(buf) - 1)) ELSE 0
\* durations are compared in samples: seconds * SAMPLE_RATE
LongerThan(buf, seconds) ==
    Len(buf) * FRAMES_PER_BUFFER > seconds * SAMPLE_RATE
ClosureDue(buf) ==
    \/ SilentRun(buf) >= MAX_SILENCE_CHUNKS /\ LongerThan(buf, MIN_SEGMENT_SECONDS)
    \/ LongerThan(buf, MAX_SEGMENT_SECONDS)
\* the frame count at which the duration first exceeds the maximum
MaxSegmentFrames ==
    (MAX_SEGMENT_SECONDS * SAMPLE_RATE) \div FRAMES_PER_BUFFER + 1
\* a step of loop l that appended a frame / that closed a segment with it
Appended(l) == lpc[l] = "read" /\ lpc'[l] \in {"test", "transcribe"}
Closed(l) == lpc[l] = "read" /\ lpc'[l] = "transcribe"
\* the samples loop l holds that have not been handed to the engine
Pending(l) ==
    IF lpc[l] = "transcribe" THEN <<>> ELSE AudioData(audio_buffer[l])

\* C13: the samples handed to the engine over all closed segments are the
\* samples of the frames read, in the order read, each once: what has been
\* read is what has been handed over followed by what is still buffered,
\* and nothing handed over is in the buffer again.
C13_FramesDispatchedOnce ==
    /\ IsPrefix(dispatched, AudioData(frames_read))
    /\ \A l \in Loops :
          Active(l) => AudioData(frames_read) = dispatched \o Pending(l)
\* a second segment has been handed over and a third is being buffered
C13_Witness ==
    \E l \in Loops :
        /\ lpc[l] = "read"
        /\ audio_buffer[l] # <<>>
        /\ Len(dispatched) > Len(Flatten(audio_buffer[l]))
        /\ Len(frames_read) > MaxSegmentFrames

\* C14: after every appended frame the segment is closed if and only if
\* the silent frames at its end are at least 12 and it is longer than 2.0 s,
\* or it is longer than 30 s, where a frame is silent iff its peak absolute
\* sample is below 300 and the duration is the frame count times 0.25 s.
C14_ClosureRule ==
    [][\A l \in Loops :
          Appended(l) =>
              (lpc'[l] = "transcribe" <=> ClosureDue(audio_buffer'[l]))]_vars

\* C15: on frames none of which is silent a segment is closed at its 121st
\* frame and at no earlier one, segment after segment.
C15_ForcedClosureAt121 ==
    [][\A l \in Loops :
          (/\ Appended(l)
           /\ \A i \in 1..Len(audio_buffer'[l]) : ~Silent(audio_buffer'[l][i]))
          => (lpc'[l] = "transcribe"
                <=> Len(audio_buffer'[l]) = MaxSegmentFrames)]_vars

\* C16: no segment is closed while its duration is 2.0 s or less, whatever
\* the frames are.
C16_NoClosureWithinMinimum ==
    [][\A l \in Loops :
          Closed(l) => LongerThan(audio_buffer'[l], MIN_SEGMENT_SECONDS)]_vars
\* a segment closed by a pause, well before the maximum duration
C16_Witness ==
    \E l \in Loops :
        /\ lpc[l] = "transcribe"
        /\ silence_chunks[l] >= MAX_SILENCE_CHUNKS
        /\ ~LongerThan(audio_buffer[l], MAX_SEGMENT_SECONDS)
        /\ ~Silent(audio_buffer[l][1])

\* C17: on frames silent from the first one of the segment the segment is
\* closed exactly when the run of silent frames reaches 12; and no segment
\* is ever closed with no frame in the buffer.
C17_SilenceOnlySegment ==
    [][\A l \in Loops :
          /\ (/\ Appended(l)
              /\ \A i \in 1..Len(audio_buffer'[l]) : Silent(audio_buffer'[l][i]))
             => (lpc'[l] = "transcribe"
                   <=> Len(audio_buffer'[l]) = MAX_SILENCE_CHUNKS)
          /\ lpc'[l] = "transcribe" => Len(audio_buffer'[l]) > 0]_vars
\* a segment of twelve silent frames is with the engine
C17_Witness ==
    \E l \in Loops :
        /\ lpc[l] = "transcribe"
        /\ Len(audio_buffer[l]) = MAX_SILENCE_CHUNKS
        /\ \A i \in 1..Len(audio_buffer[l]) : Silent(audio_buffer[l][i])

\* C18: a buffer never holds more than 121 frames; a frame read makes it one
\* frame longer; it gets shorter only when the closed segment has been
\* transcribed or the loop ends; and when a transcription returns, the
\* buffer and the silence run are both zero before the next read.
C18_BufferBounds ==
    [][\A l \in Loops :
          /\ Len(audio_buffer'[l]) <= MaxSegmentFrames
          /\ Appended(l) =>
                /\ Len(audio_buffer'[l]) = Len(audio_buffer[l]) + 1
                /\ SubSeq(audio_buffer'[l], 1, Len(audio_buffer[l]))
                      = audio_buffer[l]
          /\ (Len(audio_buffer'[l]) < Len(audio_buffer[l]) /\ Alive(l)')
                => lpc[l] = "transcribe"
          /\ (lpc[l] = "transcribe" /\ lpc'[l] = "test")
                => audio_buffer'[l] = <<>> /\ silence_chunks'[l] = 0]_vars
\* a buffer of 121 frames is with the engine
C18_Witness ==
    \E l \in Loops :
        lpc[l] = "transcribe" /\ Len(audio_buffer[l]) = MaxSegmentFrames

\* C19: every transcription call comes after load_model has stored the
\* model and set model_loaded: no loop reaches a closure while the model is
\* None or the loaded flag is still false.
C19_ModelLoadedBeforeClosure ==
    [][\A l \in Loops :
          (lpc[l] = "read" /\ lpc'[l] \in {"transcribe", "finally_model"})
              => model # None /\ model_loaded]_vars

\* C20: when a loop leaves because the flag is false, the frames it still
\* holds are dropped: from the failed test to the end of the thread nothing
\* is handed to the engine and no line is added; and once no loop is left
\* the transcript changes only by being cleared.
C20_ExitDiscardsBuffer ==
    [][/\ \A l \in Loops :
             \/ lpc[l] = "test" /\ lpc'[l] = "finally_exit"
             \/ lpc[l] = "finally_exit" /\ lpc'[l] # "finally_exit"
             => /\ dispatched' = dispatched
                /\ transcript' = transcript
                /\ lpc'[l] \in {"finally_exit", "free"}
                /\ lpc'[l] = "free" => audio_buffer'[l] = <<>>
       /\ ((\A l \in Loops : Dead(l)) /\ transcript' # transcript)
             => transcript' = <<>>]_vars
\* a loop has left with frames in its buffer that were never handed over;
\* the transcript holds the line of an earlier segment
C20_Witness ==
    /\ \E l \in Loops : lpc[l] = "finally_exit" /\ audio_buffer[l] # <<>>
    /\ transcript # <<>>
    /\ dispatched # <<>>
    /\ Len(dispatched) < Len(AudioData(frames_read))
====
